---- MODULE Spec2Model ----
(***************************************************************************)
(* Model of get-aq.py: the poll loop that fetches air-quality monitors     *)
(* around a postal code, keeps the closest monitor per pollutant type,     *)
(* optionally writes each one to InfluxDB, prints a table and sleeps.      *)
(*                                                                         *)
(* Abstractions.  A location is a mile mark on a line through the search   *)
(* origin (mile 0), so the geodesic distance of a monitor is its mile      *)
(* mark.  A monitor keeps the fields the selection, the table and the      *)
(* sink use to tell monitors apart: name, type, distance_mi, conc_units.   *)
(* The site name of a record is its position in the response.              *)
(***************************************************************************)
EXTENDS Integers, Sequences, FiniteSets, TLC

VARIABLES
    pc,            \* position of the main program
    cli_args,      \* parsed command line: sink options given, distance
    loc,           \* main: the point get_loc returned, << >> before that
    bbox,          \* get_monitors: the bbox of the request, << >> before it
    influx_client, \* TRUE when an InfluxDBClient was built, FALSE for None
    fetch_outcome, \* what session.get / raise_for_status / json did this cycle
    raw_monitors,  \* get_monitors: the decoded response (or None)
    monitors,      \* main: the value returned by get_monitors
    closest_mons,  \* main: the dict returned by get_closest_monitors
    mon_table,     \* rows added to the table of this cycle
    writes,        \* write_api.write calls of this cycle, with their outcome
    report,        \* what this cycle showed the operator
    events,        \* the steps of this cycle, in order
    exc,           \* the uncaught exception that ended the process, or "none"
    exit_status,   \* "running", "0" (clean exit) or "nonzero" (traceback)
    interrupted,   \* TRUE once a KeyboardInterrupt was delivered
    earlier        \* what the cycles before this one found and reported

vars == << pc, cli_args, loc, bbox, earlier, influx_client, fetch_outcome, raw_monitors, monitors,
           closest_mons, mon_table, writes, report, events, exc, exit_status,
           interrupted >>

----------------------------------------------------------------------------
(* Bounds of the model *)

\* most records in one response of the data API
MaxRecords == 3
\* most monitors in one input of get_closest_monitors checked on its own
MaxLen == 3
\* farthest mile mark of a monitor
MaxDist == 1

----------------------------------------------------------------------------
(* Values *)

\* class MonitorType(enum.Enum)
MonitorType == {"OZONE", "PM2.5", "PM10"}

\* class ConcUnits(enum.Enum)
ConcUnits == {"UG/M3", "PPB"}

\* Python's None and a list, told apart as get_monitors' callers can.
None == [kind |-> "None", items |-> << >>]
List(s) == [kind |-> "list", items |-> s]

\* Truth value of None or of a list: None and [] are false.
TruthyAlways(v) == TRUE
Truthy(v) == v.kind = "list" /\ v.items # << >>

\* abs()
Abs(x) == IF x < 0 THEN -x ELSE x

\* geopy.distance.distance(origin_loc, mon_loc).mi on the line of mile marks
origin_loc == 0
distance(a, b) == Abs(b - a)

\* The <<Parameter, Unit>> token pairs the data API is taken to send: each
\* pollutant with its unit, an unknown pollutant and an unknown unit.
RawTokens == { <<"OZONE", "PPB">>, <<"PM2.5", "UG/M3">>, <<"PM10", "UG/M3">>,
               <<"CO", "PPB">>, <<"OZONE", "PPM">> }

\* One record of the JSON array: its tokens and where the monitor is.
RawRecords == { [Parameter |-> t[1], Unit |-> t[2], Mile |-> m] :
                  t \in RawTokens, m \in 0..MaxDist }

SeqsUpTo(S, n) == UNION { [1..k -> S] : k \in 0..n }

\* The JSON arrays a 2xx response may carry.
Responses == SeqsUpTo(RawRecords, MaxRecords)

\* The --url, --token, --org and --bucket options: given (TRUE) or not; the
\* search distance of the runs of the whole program is one unit.
CliArgs == [url : BOOLEAN, token : BOOLEAN, org : BOOLEAN, bucket : BOOLEAN,
            distance : {1}]

\* Nothing found or reported yet: the run is in its first cycle.
NoCycles == [types |-> {}, reports |-> {}]

----------------------------------------------------------------------------
(* The bounding box of get_monitors *)

\* Points are <<latitude, longitude>> on a grid.  Longitudes are the cells
\* -HalfTurn .. HalfTurn - 1 of a ring, as degrees are kept in [-180, 180);
\* latitudes stay away from the poles by more than the largest distance.
HalfTurn == 3
MaxLat == 1
MaxRadius == 2

\* geopy.Point keeps a longitude in [-180, 180): (x + 180) % 360 - 180
NormalizeLon(x) == ((x + HalfTurn) % (2 * HalfTurn)) - HalfTurn

\* The point get_loc returns in the runs of the whole program.
Home == << 0, 0 >>

\* Points a postal code may resolve to, and distances the command line takes
\* (type=float: zero and negative numbers are accepted).
Points == (-MaxLat..MaxLat) \X (-HalfTurn..(HalfTurn - 1))
Radii == -MaxRadius..MaxRadius

\* geopy.distance.distance(miles=d).destination(origin, bearing): d grid cells
\* along the diagonal, north-east for bearing 45 and south-west for 225.  A
\* negative d goes the opposite way, zero stays at the origin.
destination(origin, d, bearing) ==
    LET step == IF bearing = 45 THEN d ELSE -d
    IN << origin[1] + step, NormalizeLon(origin[2] + step) >>

\* "bbox": min_point.longitude, min_point.latitude, max_point.longitude,
\* max_point.latitude
BoundingBox(origin, d) ==
    LET min_point == destination(origin, d, 225)
        max_point == destination(origin, d, 45)
    IN << min_point[2], min_point[1], max_point[2], max_point[1] >>

----------------------------------------------------------------------------
(* get_monitors *)

\* Monitor(...) of one record; i is the record's position in the response.
Monitor(raw_mon, i) ==
    [name |-> i, type |-> raw_mon.Parameter,
     distance_mi |-> distance(origin_loc, raw_mon.Mile),
     conc_units |-> raw_mon.Unit]

\* The for loop over raw_monitors from record i on, acc the list built so far.
\* MonitorType(...) and ConcUnits(...) raise ValueError on an unknown token and
\* the loop ends there.
RECURSIVE ParseRecordsSkip(_, _, _)
ParseRecordsSkip(raw, i, acc) ==
    IF i > Len(raw) THEN [exc |-> "none", monitors |-> acc]
    ELSE IF raw[i].Parameter \notin MonitorType \/ raw[i].Unit \notin ConcUnits
         THEN ParseRecordsSkip(raw, i + 1, acc)
    ELSE ParseRecordsSkip(raw, i + 1, Append(acc, Monitor(raw[i], i)))

RECURSIVE ParseRecords(_, _, _)
ParseRecords(raw, i, acc) ==
    IF i > Len(raw) THEN [exc |-> "none", monitors |-> acc]
    ELSE IF raw[i].Parameter \notin MonitorType
         THEN [exc |-> "ValueError: not a valid MonitorType", monitors |-> acc]
    ELSE IF raw[i].Unit \notin ConcUnits
         THEN [exc |-> "ValueError: not a valid ConcUnits", monitors |-> acc]
    ELSE ParseRecords(raw, i + 1, Append(acc, Monitor(raw[i], i)))

\* return monitors if len(monitors) > 0 else None
ReturnList(ms) == List(ms)
ReturnMonitors(ms) == IF Len(ms) > 0 THEN List(ms) ELSE None

\* except (requests.HTTPError, JSONDecodeError)
CaughtHTTPOnly == {"HTTPError"}
Caught == {"HTTPError", "JSONDecodeError"}

\* What the request can do: session.get raises (no response), the response has
\* an error status, its body is not JSON, or it decodes.
FetchOutcomes == {"ConnectionError", "HTTPError", "JSONDecodeError", "OK"}

----------------------------------------------------------------------------
(* get_closest_monitors *)

\* monitor.type not in closest_mons
HasType(d, t) == \E i \in 1..Len(d) : d[i].type = t

\* closest_mons[t]
Lookup(d, t) == d[CHOOSE i \in 1..Len(d) : d[i].type = t]

\* closest_mons[monitor.type] = monitor: a dict keeps a key's first position.
Store(d, monitor) ==
    IF HasType(d, monitor.type)
    THEN [i \in 1..Len(d) |-> IF d[i].type = monitor.type THEN monitor ELSE d[i]]
    ELSE Append(d, monitor)

\* abs(monitor.distance_mi) < abs(closest_mons[monitor.type].distance_mi)
AlwaysReplace(monitor, cur) == TRUE
CloserOrEqual(monitor, cur) == Abs(monitor.distance_mi) <= Abs(cur.distance_mi)
Farther(monitor, cur) == Abs(monitor.distance_mi) > Abs(cur.distance_mi)
Closer(monitor, cur) == Abs(monitor.distance_mi) < Abs(cur.distance_mi)

\* The for loop of get_closest_monitors from monitor i on.
RECURSIVE ClosestFrom(_, _, _)
ClosestFrom(ms, i, d) ==
    IF i > Len(ms) THEN d
    ELSE ClosestFrom(ms, i + 1,
            IF ~HasType(d, ms[i].type) \/ Closer(ms[i], Lookup(d, ms[i].type))
            THEN Store(d, ms[i]) ELSE d)

\* closest_mons = {}
StaleDict == << [name |-> 0, type |-> "PM10", distance_mi |-> 0,
                 conc_units |-> "UG/M3"] >>
EmptyDict == << >>

get_closest_monitors(ms) == ClosestFrom(ms, 1, EmptyDict)

----------------------------------------------------------------------------
(* __main__ *)

\* if cli_args.url and cli_args.token and cli_args.org and cli_args.bucket
SinkConfiguredAny(a) == a.url \/ a.token \/ a.org \/ a.bucket
SinkConfigured(a) == a.url /\ a.token /\ a.org /\ a.bucket

LoopStates == {"Fetching", "Selecting", "Persisting", "Reporting", "Sleeping"}
StartupStates == {"Idle", "Configuring"}

\* An exception nothing catches: traceback, the process ends.
Crash(e) ==
    /\ pc' = "Crashed"
    /\ exc' = e
    /\ exit_status' = "nonzero"

Init ==
    /\ pc = "Idle"
    /\ cli_args \in CliArgs
    /\ loc = << >>
    /\ bbox = << >>
    /\ earlier = NoCycles
    /\ influx_client = FALSE
    /\ fetch_outcome = "none"
    /\ raw_monitors = None
    /\ monitors = None
    /\ closest_mons = << >>
    /\ mon_table = << >>
    /\ writes = << >>
    /\ report = "none"
    /\ events = << >>
    /\ exc = "none"
    /\ exit_status = "running"
    /\ interrupted = FALSE

\* loc = geocoder.get_loc(cli_args.postalcode), the ValueError swallowed
GeocodeSwallows ==
    /\ pc = "Idle"
    /\ \E found \in BOOLEAN :
         /\ pc' = "Configuring"
         /\ loc' = IF found THEN Home ELSE loc
         /\ exc' = IF found THEN exc ELSE "ValueError: No location found"
         /\ UNCHANGED exit_status
    /\ UNCHANGED << cli_args, bbox, earlier, influx_client, fetch_outcome,
                    raw_monitors, monitors, closest_mons, mon_table, writes,
                    report, events, interrupted >>

\* loc = geocoder.get_loc(cli_args.postalcode)
Geocode ==
    /\ pc = "Idle"
    /\ \E found \in BOOLEAN :
         IF found
         THEN pc' = "Configuring" /\ loc' = Home /\ UNCHANGED << exc, exit_status >>
         ELSE Crash("ValueError: No location found") /\ UNCHANGED loc
    /\ UNCHANGED << cli_args, bbox, earlier, influx_client, fetch_outcome,
                    raw_monitors, monitors, closest_mons, mon_table, writes,
                    report, events, interrupted >>

\* influx_client = InfluxDBClient(...) or None
ConfigureSink ==
    /\ pc = "Configuring"
    /\ influx_client' = SinkConfigured(cli_args)
    /\ pc' = "Fetching"
    /\ UNCHANGED << cli_args, loc, bbox, earlier, fetch_outcome, raw_monitors,
                    monitors,
                    closest_mons, mon_table, writes, report, events, exc,
                    exit_status, interrupted >>

\* monitors = get_monitors(loc, cli_args.distance, sess); if monitors: ...
GetMonitors ==
    /\ pc = "Fetching"
    /\ \E o \in FetchOutcomes :
         /\ bbox' = BoundingBox(loc, cli_args.distance)
         /\ fetch_outcome' = o
         /\ events' = Append(events, "fetch")
         /\ \/ \* session.get raises before the try block is entered
               /\ o = "ConnectionError"
               /\ Crash(o)
               /\ UNCHANGED << raw_monitors, monitors >>
            \/ \* raise_for_status or rsp.json raises inside the try block
               /\ o \in {"HTTPError", "JSONDecodeError"}
               /\ IF o \in Caught
                  THEN /\ raw_monitors' = None
                       /\ monitors' = None
                       /\ pc' = "Reporting"
                       /\ UNCHANGED << exc, exit_status >>
                  ELSE /\ Crash(o)
                       /\ UNCHANGED << raw_monitors, monitors >>
            \/ \* the body decodes to a JSON array
               /\ o = "OK"
               /\ \E rsp \in Responses :
                    LET r == IF rsp # << >> THEN ParseRecords(rsp, 1, << >>)
                             ELSE [exc |-> "none", monitors |-> << >>]
                    IN /\ raw_monitors' = List(rsp)
                       /\ IF r.exc # "none"
                          THEN Crash(r.exc) /\ UNCHANGED monitors
                          ELSE /\ monitors' = ReturnMonitors(r.monitors)
                               /\ pc' = IF Truthy(monitors') THEN "Selecting"
                                        ELSE "Reporting"
                               /\ UNCHANGED << exc, exit_status >>
    /\ UNCHANGED << cli_args, loc, earlier, influx_client, closest_mons,
                    mon_table, writes,
                    report, interrupted >>

\* monitors = get_closest_monitors(monitors); mon_table = Table(...)
SelectClosest ==
    /\ pc = "Selecting"
    /\ closest_mons' = get_closest_monitors(monitors.items)
    /\ mon_table' = << >>
    /\ events' = Append(events, "select")
    /\ pc' = "Persisting"
    /\ UNCHANGED << cli_args, loc, bbox, earlier, influx_client,
                    fetch_outcome, raw_monitors,
                    monitors, writes, report, exc, exit_status, interrupted >>

\* One turn of "for monitor in monitors.values()" with the write after the
\* loop: only the last monitor is written.
PersistMonitorLastOnly ==
    /\ pc = "Persisting"
    /\ Len(mon_table) < Len(closest_mons)
    /\ LET monitor == closest_mons[Len(mon_table) + 1]
       IN /\ mon_table' = Append(mon_table, monitor)
          /\ IF influx_client /\ Len(mon_table) + 1 = Len(closest_mons)
             THEN \E ok \in BOOLEAN :
                    /\ writes' = Append(writes, [monitor |-> monitor, ok |-> ok])
                    /\ events' = Append(events, "write")
                    /\ IF ok
                       THEN UNCHANGED << pc, exc, exit_status >>
                       ELSE Crash("ApiException")
             ELSE UNCHANGED << writes, events, pc, exc, exit_status >>
    /\ UNCHANGED << cli_args, loc, bbox, earlier, influx_client,
                    fetch_outcome, raw_monitors,
                    monitors, closest_mons, report, interrupted >>

\* One turn of "for monitor in monitors.values()": add the row, then write the
\* monitor when there is a client; write_api.write may raise.
PersistMonitor ==
    /\ pc = "Persisting"
    /\ Len(mon_table) < Len(closest_mons)
    /\ LET monitor == closest_mons[Len(mon_table) + 1]
       IN /\ mon_table' = Append(mon_table, monitor)
          /\ IF influx_client
             THEN \E ok \in BOOLEAN :
                    /\ writes' = Append(writes, [monitor |-> monitor, ok |-> ok])
                    /\ events' = Append(events, "write")
                    /\ IF ok
                       THEN UNCHANGED << pc, exc, exit_status >>
                       ELSE Crash("ApiException")
             ELSE UNCHANGED << writes, events, pc, exc, exit_status >>
    /\ UNCHANGED << cli_args, loc, bbox, earlier, influx_client,
                    fetch_outcome, raw_monitors,
                    monitors, closest_mons, report, interrupted >>

\* The for loop is over: print(mon_table), then logger.info and time.sleep.
PrintTable ==
    /\ pc = "Persisting"
    /\ Len(mon_table) = Len(closest_mons)
    /\ report' = "table"
    /\ events' = events \o << "report", "sleep" >>
    /\ pc' = "Sleeping"
    /\ UNCHANGED << cli_args, loc, bbox, earlier, influx_client,
                    fetch_outcome, raw_monitors,
                    monitors, closest_mons, mon_table, writes, exc,
                    exit_status, interrupted >>

\* else: logger.error("No monitors found!"), and on to the next cycle at once
NoMonitorsNoSleep ==
    /\ pc = "Reporting"
    /\ report' = "No monitors found!"
    /\ events' = Append(events, "report")
    /\ pc' = "Fetching"
    /\ UNCHANGED << cli_args, loc, bbox, earlier, influx_client,
                    fetch_outcome, raw_monitors,
                    monitors, closest_mons, mon_table, writes, exc,
                    exit_status, interrupted >>

\* else: logger.error("No monitors found!"), then logger.info and time.sleep.
NoMonitors ==
    /\ pc = "Reporting"
    /\ report' = "No monitors found!"
    /\ events' = events \o << "report", "sleep" >>
    /\ pc' = "Sleeping"
    /\ UNCHANGED << cli_args, loc, bbox, earlier, influx_client,
                    fetch_outcome, raw_monitors,
                    monitors, closest_mons, mon_table, writes, exc,
                    exit_status, interrupted >>

\* time.sleep returns and "while True" starts the next cycle.  Nothing of the
\* cycle that ended is read again: every name is assigned before its next use.
WakeResets ==
    /\ pc = "Sleeping"
    /\ pc' = "Fetching"
    /\ fetch_outcome' = "none"
    /\ raw_monitors' = None
    /\ monitors' = None
    /\ closest_mons' = << >>
    /\ mon_table' = << >>
    /\ writes' = << >>
    /\ report' = "none"
    /\ events' = << >>
    /\ bbox' = << >>
    /\ UNCHANGED << cli_args, loc, influx_client, exc, exit_status,
                    interrupted >>

Wake == WakeResets /\ UNCHANGED earlier

\* Ctrl-C.  Inside the loop's try block: except KeyboardInterrupt prints
\* "Quitting..." and breaks.  Before the loop nothing catches it.
Interrupt ==
    /\ pc \in StartupStates \cup LoopStates
    /\ interrupted' = TRUE
    /\ IF pc \in LoopStates
       THEN /\ pc' = "Stopped"
            /\ exit_status' = "0"
            /\ UNCHANGED exc
       ELSE Crash("KeyboardInterrupt")
    /\ UNCHANGED << cli_args, loc, bbox, earlier, influx_client,
                    fetch_outcome, raw_monitors,
                    monitors, closest_mons, mon_table, writes, report, events >>

Next ==
    \/ Geocode
    \/ ConfigureSink
    \/ GetMonitors
    \/ SelectClosest
    \/ PersistMonitor
    \/ PrintTable
    \/ NoMonitors
    \/ Wake
    \/ Interrupt

Spec == Init /\ [][Next]_vars

----------------------------------------------------------------------------
(* Runs with a sink, remembering what the earlier cycles found *)

\* Wake, noting the pollutant types and the report of the cycle that ended.
WakeRecord ==
    /\ WakeResets
    /\ earlier' =
         [types |-> earlier.types
                      \cup { closest_mons[i].type : i \in 1..Len(closest_mons) },
          reports |-> earlier.reports \cup {report}]

InitCycles ==
    /\ Init
    /\ cli_args.url /\ cli_args.token /\ cli_args.org /\ cli_args.bucket

NextCycles ==
    \/ Geocode
    \/ ConfigureSink
    \/ GetMonitors
    \/ SelectClosest
    \/ PersistMonitor
    \/ PrintTable
    \/ NoMonitors
    \/ WakeRecord
    \/ Interrupt

SpecCycles == InitCycles /\ [][NextCycles]_vars

----------------------------------------------------------------------------
(* get_closest_monitors on its own: every input up to MaxLen monitors *)

\* The unit the data API reports a pollutant in.
UnitOf(t) == IF t = "OZONE" THEN "PPB" ELSE "UG/M3"

\* Lists of monitors as get_monitors returns them: distances are geodesic,
\* so never negative, and the monitor at position i is named i.
SelectInputs ==
    UNION { { [i \in 1..k |-> [name |-> i, type |-> f[i][1],
                               distance_mi |-> f[i][2],
                               conc_units |-> UnitOf(f[i][1])]] :
                f \in [1..k -> MonitorType \X (0..MaxDist)] } : k \in 0..MaxLen }

InitSelect ==
    /\ pc = "Selecting"
    /\ cli_args = [url |-> FALSE, token |-> FALSE, org |-> FALSE,
                   bucket |-> FALSE, distance |-> 1]
    /\ loc = Home
    /\ bbox = << >>
    /\ earlier = NoCycles
    /\ influx_client = FALSE
    /\ fetch_outcome = "OK"
    /\ raw_monitors = None
    /\ monitors \in { List(s) : s \in SelectInputs }
    /\ closest_mons = << >>
    /\ mon_table = << >>
    /\ writes = << >>
    /\ report = "none"
    /\ events = << "fetch" >>
    /\ exc = "none"
    /\ exit_status = "running"
    /\ interrupted = FALSE

NextSelect == SelectClosest

SpecSelect == InitSelect /\ [][NextSelect]_vars

----------------------------------------------------------------------------
(* get_monitors for every origin and every distance of the grid *)

InitBBox ==
    /\ pc = "Fetching"
    /\ cli_args \in [url : {FALSE}, token : {FALSE}, org : {FALSE},
                      bucket : {FALSE}, distance : Radii]
    /\ loc \in Points
    /\ bbox = << >>
    /\ earlier = NoCycles
    /\ influx_client = FALSE
    /\ fetch_outcome = "none"
    /\ raw_monitors = None
    /\ monitors = None
    /\ closest_mons = << >>
    /\ mon_table = << >>
    /\ writes = << >>
    /\ report = "none"
    /\ events = << >>
    /\ exc = "none"
    /\ exit_status = "running"
    /\ interrupted = FALSE

NextBBox == GetMonitors

SpecBBox == InitBBox /\ [][NextBBox]_vars

----------------------------------------------------------------------------
(* The program together with get_closest_monitors on inputs of its own *)

InitParseSelect == Init \/ InitSelect

SpecParseSelect == InitParseSelect /\ [][Next]_vars

----------------------------------------------------------------------------
(* Properties *)

\* The cycle has run get_closest_monitors.
Selected == \E i \in 1..Len(events) : events[i] = "select"

\* Positions of the input monitors of type t.
OfType(ms, t) == { i \in 1..Len(ms) : ms[i].type = t }

\* C1: get_closest_monitors returns exactly one entry per pollutant type
\* present in its input and none for an absent type, each entry is one of the
\* input monitors, and its distance is less than or equal to the distance of
\* every input monitor of the same type.
C1_OneClosestPerType ==
    Selected =>
      LET ms == monitors.items
      IN /\ \A t \in MonitorType :
              Cardinality({ i \in 1..Len(closest_mons) : closest_mons[i].type = t })
                = IF OfType(ms, t) # {} THEN 1 ELSE 0
         /\ \A i \in 1..Len(closest_mons) :
              /\ closest_mons[i].type \in MonitorType
              /\ \E j \in OfType(ms, closest_mons[i].type) : ms[j] = closest_mons[i]
              /\ \A j \in OfType(ms, closest_mons[i].type) :
                   closest_mons[i].distance_mi <= ms[j].distance_mi

\* C1 witness: two types are present, and for one of them a farther monitor
\* comes before a nearer one, which is the one kept.
C1_Witness ==
    /\ Selected
    /\ Len(closest_mons) >= 2
    /\ \E i, j \in 1..Len(monitors.items) :
         /\ i < j
         /\ monitors.items[i].type = monitors.items[j].type
         /\ monitors.items[i].distance_mi > monitors.items[j].distance_mi
         /\ \E k \in 1..Len(closest_mons) : closest_mons[k] = monitors.items[j]

\* C2: when several input monitors of a type share the minimum distance,
\* get_closest_monitors keeps the one that comes first in the input.
C2_FirstWinsOnTie ==
    Selected =>
      LET ms == monitors.items
      IN \A k \in 1..Len(closest_mons) :
           \A j \in OfType(ms, closest_mons[k].type) :
             ms[j].distance_mi = closest_mons[k].distance_mi
               => closest_mons[k].name <= ms[j].name

\* C2 witness: two monitors of one type tie at the minimum distance and the
\* earlier one is kept.
C2_Witness ==
    /\ Selected
    /\ \E i, j \in 1..Len(monitors.items) :
         /\ i < j
         /\ monitors.items[i].type = monitors.items[j].type
         /\ monitors.items[i].distance_mi = monitors.items[j].distance_mi
         /\ \E k \in 1..Len(closest_mons) : closest_mons[k] = monitors.items[i]
         /\ \A m \in OfType(monitors.items, monitors.items[i].type) :
              monitors.items[i].distance_mi <= monitors.items[m].distance_mi

\* The fetch of this cycle got a response the try block rejects.
FetchRejected == fetch_outcome \in {"HTTPError", "JSONDecodeError"}

\* C3: when the data API answers with an error status or with a body that is
\* not JSON, the cycle raises nothing, makes no sink write, reports "No
\* monitors found!" and sleeps; nothing but an interrupt stops the loop.
C3_RejectedFetchReportsNoMonitors ==
    FetchRejected =>
      /\ exc = "none"
      /\ exit_status # "nonzero"
      /\ pc \in {"Reporting", "Sleeping", "Stopped"}
      /\ pc = "Stopped" => interrupted
      /\ ~Truthy(monitors)
      /\ writes = << >>
      /\ mon_table = << >>
      /\ report \in {"none", "No monitors found!"}
      /\ pc = "Sleeping" =>
           /\ report = "No monitors found!"
           /\ events = << "fetch", "report", "sleep" >>

\* C3 witness: a cycle whose body was not JSON has reported and is asleep.
C3_Witness ==
    /\ fetch_outcome = "JSONDecodeError"
    /\ pc = "Sleeping"
    /\ report = "No monitors found!"
    /\ influx_client

\* C4: a fetch whose request raises (timeout, connection error) is recovered
\* like any other fetch failure: the cycle goes on to the "No monitors
\* found!" report and the sleep.
C4_NetworkErrorRecovered ==
    fetch_outcome = "ConnectionError" =>
      /\ exc = "none"
      /\ pc \in {"Reporting", "Sleeping", "Stopped"}

\* Some write of this cycle failed.
WriteFailed == \E k \in 1..Len(writes) : ~writes[k].ok

\* C5: a failed write for one monitor prevents neither the writes of the
\* later monitors nor the report nor the sleep of the cycle.
C5_WriteFailureDoesNotAbort ==
    WriteFailed =>
      /\ exc = "none"
      /\ pc \in {"Persisting", "Sleeping", "Stopped"}
      /\ pc = "Sleeping" => Len(writes) = Len(closest_mons) /\ report = "table"

\* The response has a record with an unknown pollutant or unit token.
HasBadToken(rsp) ==
    \E i \in 1..Len(rsp) :
        rsp[i].Parameter \notin {"OZONE", "PM2.5", "PM10"}
          \/ rsp[i].Unit \notin {"UG/M3", "PPB"}

ValueErrors == {"ValueError: not a valid MonitorType",
                "ValueError: not a valid ConcUnits"}

\* C6: a response with an unknown pollutant or unit token makes the parse
\* fail with a ValueError, and no monitor of that response, the ones before
\* the bad record included, is selected, shown or written.
C6_BadTokenAbortsParse ==
    (raw_monitors.kind = "list" /\ HasBadToken(raw_monitors.items)) =>
      /\ exc \in ValueErrors
      /\ monitors = None
      /\ closest_mons = << >>
      /\ mon_table = << >>
      /\ writes = << >>
      /\ report = "none"
      /\ events = << "fetch" >>

\* C6 witness: the first record was good, the second was not, the parse failed.
C6_Witness ==
    /\ raw_monitors.kind = "list"
    /\ Len(raw_monitors.items) >= 2
    /\ ~HasBadToken(SubSeq(raw_monitors.items, 1, 1))
    /\ HasBadToken(raw_monitors.items)
    /\ exc \in ValueErrors
    /\ influx_client

\* The cycle has started its fetch.
CycleStarted == events # << >>

\* C7: a cycle that started fetching and was not interrupted shows a report
\* before the loop sleeps, whatever the fetch, the parse and the writes did.
C7_EveryCycleReports ==
    (CycleStarted /\ ~interrupted /\ pc \in {"Sleeping", "Crashed"})
      => report # "none"

\* The process has ended after the loop was entered.
EndedInLoop == pc = "Stopped" \/ (pc = "Crashed" /\ CycleStarted)

\* C8: once the loop is entered, only a user interrupt ends the process.
C8_OnlyInterruptStops == EndedInLoop => interrupted

\* C9: an interrupt in any state ends the program cleanly: Stopped, exit 0,
\* no traceback.
C9_InterruptStopsCleanly ==
    interrupted => pc = "Stopped" /\ exit_status = "0" /\ exc = "none"

\* All four sink options were given on the command line.
AllFourGiven == cli_args.url /\ cli_args.token /\ cli_args.org /\ cli_args.bucket

\* C10: a sink write is made only in a run started with all of URL, token,
\* organization and bucket; a run without them makes no write, and fetches,
\* reports and sleeps all the same.
C10_WritesOnlyWhenConfigured ==
    /\ writes # << >> => AllFourGiven
    /\ influx_client => AllFourGiven
    /\ (~AllFourGiven /\ pc = "Sleeping" /\ Truthy(monitors)) =>
         /\ report = "table"
         /\ Len(mon_table) = Len(closest_mons)
         /\ events = << "fetch", "select", "report", "sleep" >>

\* C10 witness: three of the four options were given, a cycle found monitors,
\* showed its table and sleeps, and nothing was written.
C10_Witness ==
    /\ cli_args.url /\ cli_args.token /\ cli_args.org /\ ~cli_args.bucket
    /\ pc = "Sleeping"
    /\ report = "table"
    /\ mon_table # << >>
    /\ writes = << >>

\* The data API answered this cycle with an empty JSON array.
EmptyResponse == fetch_outcome = "OK" /\ raw_monitors = List(<< >>)

\* C11 as stated: on an empty input the parse step yields an empty sequence,
\* not an error and not a missing value, and get_closest_monitors on an empty
\* sequence yields an empty mapping.
C11_EmptyParseYieldsEmptyList ==
    /\ EmptyResponse => (exc = "none" /\ monitors = List(<< >>))
    /\ (Selected /\ monitors = List(<< >>)) => closest_mons = << >>

\* C11 as amended: on an empty input get_monitors raises nothing and returns
\* None, which the loop takes as "no monitors" without selecting; and
\* get_closest_monitors on an empty sequence yields an empty mapping.
C11_EmptyParseYieldsNone ==
    /\ EmptyResponse =>
         /\ exc = "none"
         /\ monitors = None
         /\ ~Selected
         /\ pc \in {"Reporting", "Sleeping", "Stopped"}
    /\ (Selected /\ monitors = List(<< >>)) => closest_mons = << >>

\* C11 witness: a cycle whose response was the empty array has ended with
\* get_monitors' None and the "No monitors found!" report.
C11_Witness ==
    /\ EmptyResponse
    /\ monitors = None
    /\ pc = "Sleeping"
    /\ report = "No monitors found!"

\* The fetch of this cycle brought no records: a rejected response or an
\* empty array.
NoRecords == FetchRejected \/ EmptyResponse

\* Pollutant types among the monitors get_monitors returned.
TypesPresent == { monitors.items[i].type : i \in 1..Len(monitors.items) }

\* C12: a table is shown only when the closest-monitor set of the cycle is
\* not empty, and then it has one row per pollutant type present; a cycle
\* whose fetch brought no records reports "No monitors found!" and never a
\* table.
C12_TableOnlyWhenMonitors ==
    /\ report = "table" =>
         /\ closest_mons # << >>
         /\ Len(mon_table) = Cardinality(TypesPresent)
         /\ { mon_table[i].type : i \in 1..Len(mon_table) } = TypesPresent
         /\ mon_table = closest_mons
    /\ NoRecords =>
         /\ report # "table"
         /\ mon_table = << >>
         /\ pc = "Sleeping" => report = "No monitors found!"

\* C12 witness: a table of two rows for a response with two pollutant types
\* in three records.
C12_Witness ==
    /\ report = "table"
    /\ Len(monitors.items) = 3
    /\ Len(mon_table) = 2

RequestSent == bbox # << >>

\* C14: the bounding box needs a distance above zero: with a zero or
\* negative distance the computation fails with an invalid-argument error,
\* no box is made and no request goes out.
C14_NonPositiveRadiusRejected ==
    (cli_args.distance <= 0 /\ pc # "Fetching") =>
      /\ ~RequestSent
      /\ pc = "Crashed"
      /\ fetch_outcome = "none"

\* C15: for every distance above zero and every origin the box has min
\* longitude <= max longitude and min latitude <= max latitude, and its
\* midpoint is the origin.
C15_BoxOrderedAroundOrigin ==
    (RequestSent /\ cli_args.distance > 0) =>
      /\ bbox[1] <= bbox[3]
      /\ bbox[2] <= bbox[4]
      /\ bbox[1] + bbox[3] = 2 * loc[2]
      /\ bbox[2] + bbox[4] = 2 * loc[1]

\* The monitors get_monitors returned this cycle, and the ones its response
\* holds.
ParsedNow == { monitors.items[i] : i \in 1..Len(monitors.items) }
InResponse ==
    { Monitor(raw_monitors.items[i], i) : i \in 1..Len(raw_monitors.items) }

\* The pollutant types with an entry, a row or a write in this cycle.
TypesShown ==
    { closest_mons[i].type : i \in 1..Len(closest_mons) }
      \cup { mon_table[i].type : i \in 1..Len(mon_table) }
      \cup { writes[i].monitor.type : i \in 1..Len(writes) }

\* C16: the closest-monitor set of a cycle comes from that cycle's response
\* alone: every monitor kept, shown or written is one of the cycle's parsed
\* records, and a type that had a closest monitor in an earlier cycle and has
\* no record now has no entry, no row and no write.
C16_ClosestFromThisCycleOnly ==
    /\ ParsedNow \subseteq InResponse
    /\ \A i \in 1..Len(closest_mons) : closest_mons[i] \in ParsedNow
    /\ \A i \in 1..Len(mon_table) : mon_table[i] \in ParsedNow
    /\ \A i \in 1..Len(writes) : writes[i].monitor \in ParsedNow
    /\ \A t \in earlier.types : t \notin TypesPresent => t \notin TypesShown

\* C16 witness: earlier cycles had closest monitors of all three types; this
\* cycle's response has ozone records only, and only ozone was written and
\* shown.
C16_Witness ==
    /\ earlier.types = {"OZONE", "PM2.5", "PM10"}
    /\ TypesPresent = {"OZONE"}
    /\ TypesShown = {"OZONE"}
    /\ Len(writes) = 1
    /\ report = "table"

\* How often event e is in the log of the cycle.
Count(e) == Cardinality({ i \in 1..Len(events) : events[i] = e })

\* A cycle at its sleep has fetched once, then reported once, then gone to
\* sleep once.
OneReportThenSleep ==
    pc = "Sleeping" =>
      /\ Len(events) >= 3
      /\ events[1] = "fetch"
      /\ Count("fetch") = 1 /\ Count("report") = 1 /\ Count("sleep") = 1
      /\ SubSeq(events, Len(events) - 1, Len(events)) = << "report", "sleep" >>

\* A fetch starts a cycle, and a cycle starts only at the first entry of the
\* loop or when the sleep of the cycle before has returned.
FetchAfterSleep ==
    /\ (pc # "Fetching" /\ pc' = "Fetching") => pc \in {"Configuring", "Sleeping"}
    /\ Len(events') > Len(events) /\ events'[Len(events')] = "fetch"
         => (pc = "Fetching" /\ events = << >>)

\* C17: cycles are sequential and a sleep apart: between two fetches there
\* is one report followed by one sleep, after a cycle with monitors and after
\* one without, and no fetch starts before the sleep has returned.
C17_OneReportOneSleepBetweenFetches ==
    []OneReportThenSleep /\ [][FetchAfterSleep]_vars

\* C17 witness: a later cycle is at its sleep, after a cycle that showed a
\* table and a cycle that found no monitors.
C17_Witness ==
    /\ earlier.reports = {"table", "No monitors found!"}
    /\ pc = "Sleeping"
    /\ report = "table"

\* Monitor m is the closest of its type among the parsed records: none of
\* its type is nearer, and none at the same distance comes before it.
ClosestOfItsType(m) ==
    /\ m \in ParsedNow
    /\ \A j \in OfType(monitors.items, m.type) :
         /\ m.distance_mi <= monitors.items[j].distance_mi
         /\ monitors.items[j].distance_mi = m.distance_mi => m.name <= j

\* C18: with a sink, monitors found and no failed write, one write is made
\* per monitor of the closest set, so at most one per pollutant type and
\* three per cycle, each carries the closest monitor of its type, and every
\* write comes before the report.
C18_OneWritePerClosestMonitor ==
    (influx_client /\ ~WriteFailed) =>
      /\ Len(writes) = Len(mon_table)
      /\ Len(writes) <= 3
      /\ \A i, j \in 1..Len(writes) :
           i # j => writes[i].monitor.type # writes[j].monitor.type
      /\ \A i \in 1..Len(writes) :
           /\ writes[i].monitor = closest_mons[i]
           /\ ClosestOfItsType(writes[i].monitor)
      /\ report = "table" =>
           { writes[i].monitor.type : i \in 1..Len(writes) } = TypesPresent
      /\ \A i, j \in 1..Len(events) :
           (events[i] = "write" /\ events[j] = "report") => i < j

\* C18 witness: three monitors of three types were written, then the table
\* was shown.
C18_Witness ==
    /\ influx_client
    /\ ~WriteFailed
    /\ Len(writes) = 3
    /\ report = "table"
    /\ events = << "fetch", "select", "write", "write", "write", "report", "sleep" >>

\* The one-to-one maps of 1..n onto itself.
Perms(n) == { p \in [1..n -> 1..n] : \A i, j \in 1..n : p[i] = p[j] => i = j }

\* No two monitors of one type are at distances of the same magnitude.
DistinctPerType(ms) ==
    \A i, j \in 1..Len(ms) :
        (i < j /\ ms[i].type = ms[j].type)
          => Abs(ms[i].distance_mi) # Abs(ms[j].distance_mi)

\* A dict as the mapping it is, whatever the order its keys were added in.
AsMapping(d) == { d[i] : i \in 1..Len(d) }

\* C19: when the monitors of each type are at pairwise distinct distance
\* magnitudes, get_closest_monitors gives the same mapping for every order
\* of its input, and applied to the values of its result it returns that
\* result.
C19_OrderIndependentAndIdempotent ==
    (Selected /\ DistinctPerType(monitors.items)) =>
      LET ms == monitors.items
      IN /\ \A p \in Perms(Len(ms)) :
              AsMapping(get_closest_monitors([i \in 1..Len(ms) |-> ms[p[i]]]))
                = AsMapping(closest_mons)
         /\ get_closest_monitors(closest_mons) = closest_mons

\* C19 witness: three monitors, two of one type with the farther one first,
\* and the nearer one is in the result.
C19_Witness ==
    /\ Selected
    /\ Len(monitors.items) = 3
    /\ DistinctPerType(monitors.items)
    /\ monitors.items[1].type = monitors.items[2].type
    /\ monitors.items[1].distance_mi > monitors.items[2].distance_mi
    /\ monitors.items[2] \in AsMapping(closest_mons)

====
